---- MODULE Spec2Model ----
(***************************************************************************)
(* A model of cement2's application foundation (core/foundation.py):       *)
(* CementApp with its lay-down, setup(), run(), close() and render(), the  *)
(* handler resolver, the configuration defaults merger and the signal      *)
(* handler.  Python's None is the string "None"; a handler instance is     *)
(* named by the label of its class.                                        *)
(***************************************************************************)
EXTENDS Integers, Sequences, FiniteSets, TLC

VARIABLES
    hooks,      \* backend.hooks: hook name -> callables in run order
    handlers,   \* backend.handlers: handler type -> registered labels, in order
    meta,       \* app._meta: defaults, config_files, extensions,
                \* catch_signals, extension_handler, config_handler
    app,        \* app.ext/.config/.log/.plugin/.args/.output/.controller
    config,     \* the store of app.config: section -> key -> value
    argv,       \* app.argv
    argdests,   \* destinations declared on app.args by add_argument
    sigs,       \* signal numbers whose handler is cement_signal_handler
    stdout,     \* sys.stdout: "console" or "NullOut"
    pc,         \* the statement of setup()/run()/render() control is at
    op,         \* the operation in progress or last finished
    exc,        \* the exception the last operation raised, or "None"
    trace,      \* what the operation in progress (or last finished) did
    data,       \* render(): the data argument, as the hooks replace it
    out_text,   \* render(): the text, as the hooks replace it
    closed,     \* close() has completed on this application
    parsed_args,\* app.args.parsed_args
    signum,     \* the signal number the last CementSignalError carries
    before,     \* the application and the backend when the operation began
    called,     \* the operations called on this application so far
    since       \* what the author defined and registered since the lay-down

vars == <<hooks, handlers, meta, app, config, argv, argdests, sigs, stdout,
          pc, op, exc, trace, data, out_text, closed, parsed_args, signum,
          before, called, since>>

None == "None"

(***************************************************************************)
(* Bounds of the model.                                                    *)
(***************************************************************************)
MaxHooks == 2       \* callables registered on one hook
MaxRegistered == 2  \* handler classes registered by the application's author
MaxUserArgs == 2    \* arguments the author declares with add_arg

(***************************************************************************)
(* Finite maps.                                                            *)
(***************************************************************************)
EmptyMap == [k \in {} |-> None]

Put(m, k, v) == [x \in (DOMAIN m) \cup {k} |-> IF x = k THEN v ELSE m[x]]

Range(s) == {s[i] : i \in DOMAIN s}

(***************************************************************************)
(* Names that are processed character by character.                        *)
(***************************************************************************)
Spell(s) ==
    CASE s = "base" -> <<"b", "a", "s", "e">>
      [] s = "my_c" -> <<"m", "y", "_", "c">>
      [] s = "my-c" -> <<"m", "y", "-", "c">>
      [] s = "run"  -> <<"r", "u", "n">>
      [] s = "-v"   -> <<"-", "v">>
      [] s = "_v"   -> <<"_", "v">>
      [] s = "foo"  -> <<"f", "o", "o">>
      [] s = "_p"   -> <<"_", "p">>
      [] s = "debug" -> <<"d", "e", "b", "u", "g">>
      [] s = "suppress_output" ->
            <<"s", "u", "p", "p", "r", "e", "s", "s", "_",
              "o", "u", "t", "p", "u", "t">>
      [] s = "output_handler" ->
            <<"o", "u", "t", "p", "u", "t", "_",
              "h", "a", "n", "d", "l", "e", "r">>
      [] s = "--debug" -> <<"-", "-", "d", "e", "b", "u", "g">>
      [] s = "__debug" -> <<"_", "_", "d", "e", "b", "u", "g">>
      [] s = "--quiet" -> <<"-", "-", "q", "u", "i", "e", "t">>
      [] s = "__quiet" -> <<"_", "_", "q", "u", "i", "e", "t">>
      [] s = "--json"  -> <<"-", "-", "j", "s", "o", "n">>
      [] s = "__json"  -> <<"_", "_", "j", "s", "o", "n">>
      [] s = "--yaml"  -> <<"-", "-", "y", "a", "m", "l">>
      [] s = "__yaml"  -> <<"_", "_", "y", "a", "m", "l">>

Words == {"base", "my_c", "my-c", "run", "-v", "_v", "foo", "_p", "debug",
          "suppress_output", "output_handler", "--debug", "__debug",
          "--quiet", "__quiet", "--json", "__json", "--yaml", "__yaml"}

\* re.sub('-', '_', s)
SubDash(s) ==
    LET folded == [i \in DOMAIN Spell(s) |->
                      IF Spell(s)[i] = "-" THEN "_" ELSE Spell(s)[i]]
    IN  CHOOSE w \in Words : Spell(w) = folded

\* member.startswith('_')
StartsWithUnderscore(s) == Len(Spell(s)) > 0 /\ Spell(s)[1] = "_"

(***************************************************************************)
(* backend.hooks and the hook module.                                      *)
(***************************************************************************)
FrameworkHooks ==
    <<"cement_pre_setup_hook", "cement_post_setup_hook",
      "cement_pre_run_hook", "cement_post_run_hook",
      "cement_on_close_hook", "cement_signal_hook",
      "cement_pre_render_hook", "cement_post_render_hook">>

\* The callables an author registers: what each returns, or that it raises.
Callables == {"ret_none", "ret_dict1", "ret_dict2", "ret_str1", "ret_str2",
              "ret_list", "boom"}

Raises(fn) == fn = "boom"

\* type(res) of a callable's return value
ResultType(fn) ==
    CASE fn \in {"ret_dict1", "ret_dict2"} -> "dict"
      [] fn \in {"ret_str1", "ret_str2"}   -> "str"
      [] fn = "ret_list"                   -> "list"
      [] OTHER                             -> "NoneType"

\* the return value itself
ResultValue(fn) ==
    CASE fn = "ret_dict1" -> "d1"
      [] fn = "ret_dict2" -> "d2"
      [] fn = "ret_str1"  -> "s1"
      [] fn = "ret_str2"  -> "s2"
      [] fn = "ret_list"  -> "l1"
      [] OTHER            -> None

\* hook.define(name)
HookDefine(h, name) == Put(h, name, <<>>)

RECURSIVE HookDefineAll(_, _)
HookDefineAll(h, names) ==
    IF names = <<>> THEN h
    ELSE HookDefineAll(HookDefine(h, Head(names)), Tail(names))

\* hook.register(name, fn), every callable at the default priority
HookRegister(h, name, fn) == Put(h, name, Append(h[name], fn))

\* hook.run(name, arg), consumed to its end by a for loop: the callables
\* invoked, in order, up to and including the first that raises.
HookCalls(name) ==
    LET fns == hooks[name]
        stop == IF \E i \in DOMAIN fns : Raises(fns[i])
                THEN CHOOSE i \in DOMAIN fns :
                        /\ Raises(fns[i])
                        /\ \A j \in 1..(i - 1) : ~Raises(fns[j])
                ELSE Len(fns)
    IN  SubSeq(fns, 1, stop)

HookRaised(name) == \E i \in DOMAIN hooks[name] : Raises(hooks[name][i])

\* the trace of a dispatch that hands each callable what the callable before
\* it returned, when that returned anything
CallEventsChained(name, arg) ==
    LET calls == HookCalls(name)
        given(i) ==
            LET idx == {j \in 1..(i - 1) : ResultType(calls[j]) # "NoneType"}
            IN  IF idx = {} THEN arg
                ELSE ResultValue(calls[CHOOSE j \in idx : \A k \in idx : k <= j])
    IN  [i \in DOMAIN calls |-> <<"call", name, calls[i], given(i)>>]

\* the trace of one dispatch: one entry per callable invoked
CallEvents(name, arg) ==
    [i \in DOMAIN HookCalls(name) |-> <<"call", name, HookCalls(name)[i], arg>>]

(***************************************************************************)
(* backend.handlers and the handler module.  A handler class is a record   *)
(* [type, label]: the label of its interface and its own label.            *)
(***************************************************************************)
Interfaces ==
    <<"extension", "log", "config", "plugin", "output", "argument",
      "controller">>

Class(t, l) == [type |-> t, label |-> l]

CementExtensionHandler == Class("extension", "cement")

\* the controllers and the output handler an application's author writes
AuthorClasses ==
    {Class("controller", "base"), Class("controller", "my_c"),
     Class("controller", "run"), Class("output", "json")}

\* hasattr(handler_obj._meta, 'defaults')
HasDefaults(c) ==
    c \in {Class("controller", "base"), Class("controller", "my_c"),
           Class("output", "json"), Class("extension", "my_ext"),
           Class("config", "my_conf")}

\* handler_obj._meta.defaults
ClassDefaults(c) ==
    CASE c = Class("controller", "base") -> [x |-> "2", y |-> "3"]
      [] c = Class("controller", "my_c") -> [y |-> "4", z |-> "5"]
      [] c = Class("output", "json")     -> [x |-> "7", indent |-> "4"]
      [] c = Class("extension", "my_ext") -> [x |-> "8"]
      [] c = Class("config", "my_conf")   -> [x |-> "9"]
      [] OTHER                           -> EmptyMap

\* getattr(handler_obj._meta, 'stacked_on', None)
StackedOn(c) == IF c = Class("controller", "my_c") THEN "base" ELSE None

\* handler.define(interface)
HandlerDefine(hs, type) == Put(hs, type, <<>>)

RECURSIVE HandlerDefineAll(_, _)
HandlerDefineAll(hs, types) ==
    IF types = <<>> THEN hs
    ELSE HandlerDefineAll(HandlerDefine(hs, Head(types)), Tail(types))

\* handler.registered(type, label)
Registered(hs, type, label) ==
    type \in DOMAIN hs /\ label \in Range(hs[type])

\* handler.register(cls): under the class's own interface, a label once
HandlerRegister(hs, c) ==
    IF Registered(hs, c.type, c.label) THEN hs
    ELSE Put(hs, c.type, Append(hs[c.type], c.label))

RECURSIVE HandlerRegisterAll(_, _)
HandlerRegisterAll(hs, cs) ==
    IF cs = <<>> THEN hs
    ELSE HandlerRegisterAll(HandlerRegister(hs, Head(cs)), Tail(cs))

(***************************************************************************)
(* The configuration handler's store: section -> key -> value.             *)
(***************************************************************************)
\* config.merge(dict_obj, override)
Merge(cfg, d, override) ==
    [s \in (DOMAIN cfg) \cup (DOMAIN d) |->
        IF s \notin DOMAIN d THEN cfg[s]
        ELSE IF s \notin DOMAIN cfg THEN d[s]
        ELSE [k \in (DOMAIN cfg[s]) \cup (DOMAIN d[s]) |->
                IF k \in DOMAIN d[s] /\ (override \/ k \notin DOMAIN cfg[s])
                THEN d[s][k]
                ELSE cfg[s][k]]]

\* config.set(section, key, value)
ConfigSet(cfg, s, k, v) == [cfg EXCEPT ![s] = Put(cfg[s], k, v)]

\* 'base' holds the option: config.get('base', key) finds it, and raises
\* the configuration handler's NoOptionError otherwise
HasOption(cfg, k) == "base" \in DOMAIN cfg /\ k \in DOMAIN cfg["base"]

\* config.get('base', key)
ConfigGet(cfg, k) == cfg["base"][k]

\* the config handler's _setup(app): a new store holding the app's defaults
ConfigSetup(m) == Merge(EmptyMap, m.defaults, TRUE)

\* what the configuration files hold
FileContent(f) ==
    CASE f = "f_ctl" -> [base |-> [controller_handler |-> "my_c"]]
      [] f = "f_x"   -> [base |-> [x |-> "1"]]
      [] f = "f_out" -> [base |-> [output_handler |-> "json"],
                         output |-> [indent |-> "2"]]
      [] f = "f_plugins" -> [base |-> [plugins |-> "[]"]]
      [] OTHER       -> EmptyMap

\* config.parse_file(path): what the file sets replaces what was set
ParseFile(cfg, f) == Merge(cfg, FileContent(f), TRUE)

(***************************************************************************)
(* CementApp._set_handler_defaults                                         *)
(***************************************************************************)
\* the section a handler's defaults go under, with stacked_on passed over
DefaultsKeyOwnLabel(c) == IF c.type = "controller" THEN c.label ELSE c.type

\* the section a handler's defaults go under
DefaultsKey(c) ==
    IF c.type = "controller"
    THEN IF StackedOn(c) # None THEN StackedOn(c) ELSE c.label
    ELSE c.type

\* _set_handler_defaults(handler_obj) with override=True
SetHandlerDefaultsOverriding(confHandler, cfg, c) ==
    IF ~HasDefaults(c) THEN [exc |-> None, config |-> cfg]
    ELSE IF confHandler = None THEN [exc |-> "AttributeError", config |-> cfg]
    ELSE [exc |-> None,
          config |-> Merge(cfg, Put(EmptyMap, DefaultsKey(c), ClassDefaults(c)),
                           TRUE)]

\* _set_handler_defaults(handler_obj): self.config is confHandler, its store
\* cfg; gives the exception raised (None if none) and the store afterwards
SetHandlerDefaults(confHandler, cfg, c) ==
    IF ~HasDefaults(c) THEN [exc |-> None, config |-> cfg]
    ELSE IF confHandler = None THEN [exc |-> "AttributeError", config |-> cfg]
    ELSE [exc |-> None,
          config |-> Merge(cfg, Put(EmptyMap, DefaultsKey(c), ClassDefaults(c)),
                           FALSE)]

(***************************************************************************)
(* CementApp._resolve_handler.  A reference is [shape, class]: shape "str" *)
(* (the label of class), "instance", "class", or "other".                  *)
(***************************************************************************)
Ref(shape, c) == [shape |-> shape, class |-> c]

\* an entry of an operation's trace
Ev(kind, what) == <<kind, what, "", "">>

\* the str branch with handler.get(handler_type, handler_def, None): an
\* unregistered label gives None instead of raising
ResolveStrFallback(hs, cfg, type, label) ==
    [exc |-> "AttributeError", handlers |-> hs, config |-> cfg, han |-> None,
     events |-> <<Ev("handler.get", label),
                  Ev("_set_handler_defaults",
                     IF Registered(hs, type, label) THEN "class"
                     ELSE "None")>>]

\* the str branch of _resolve_handler: han = handler.get(handler_type,
\* handler_def), then self._set_handler_defaults(han)
ResolveStr(hs, cfg, type, label) ==
    IF ~Registered(hs, type, label)
    THEN [exc |-> "NotFoundError", handlers |-> hs, config |-> cfg,
          han |-> None, events |-> <<Ev("handler.get", label)>>]
    ELSE [exc |-> "AttributeError", handlers |-> hs, config |-> cfg,
          han |-> None,
          events |-> <<Ev("handler.get", label),
                       Ev("_set_handler_defaults", "class")>>]

\* gives the exception raised (None if none), backend.handlers and the
\* config store afterwards, the label of the handler returned and what was
\* done on the way.  handler.get gives the registered class, and the str
\* branch keeps that class as han without calling it: a class carries Meta
\* and no _meta, so _set_handler_defaults(han) fails reading han._meta, as
\* it does on the None left by a reference of no known shape.
ResolveHandler(hs, confHandler, cfg, type, ref) ==
    LET label == ref.class.label
        found == Registered(hs, type, label)
        hs1   == IF ref.shape \in {"instance", "class"} /\ ~found
                 THEN HandlerRegister(hs, ref.class)
                 ELSE hs
        dflt  == SetHandlerDefaults(confHandler, cfg, ref.class)
        got   == (IF found THEN <<>>
                  ELSE <<Ev("handler.register", label)>>) \o
                 (IF ref.shape = "class"
                  THEN <<Ev("instantiate", label)>> ELSE <<>>) \o
                 <<Ev("_set_handler_defaults", label)>>
    IN  CASE ref.shape = "str" -> ResolveStr(hs, cfg, type, label)
          [] ref.shape \in {"instance", "class"} /\ dflt.exc # None ->
               [exc |-> dflt.exc, handlers |-> hs1, config |-> dflt.config,
                han |-> None, events |-> got]
          [] ref.shape \in {"instance", "class"} /\ dflt.exc = None ->
               [exc |-> None, handlers |-> hs1, config |-> dflt.config,
                han |-> label,
                events |-> got \o
                    <<Ev("_setup", label),
                      Ev("return", IF ref.shape = "instance"
                                   THEN "handler_def" ELSE "new instance")>>]
          [] OTHER ->
               [exc |-> "AttributeError", handlers |-> hs, config |-> cfg,
                han |-> None,
                events |-> <<Ev("_set_handler_defaults", "None")>>]

(***************************************************************************)
(* CementApp.Meta and the lay-down.                                        *)
(***************************************************************************)
\* backend.defaults(), with the handlers the application's author names
BackendDefaults(ctl, out) ==
    [base |-> [controller_handler |-> ctl, output_handler |-> out,
               arg_handler |-> "argparse", plugins |-> "[]",
               debug |-> "False"]]

\* Meta.extension_handler, config_handler, log_handler, plugin_handler
ExtensionHandlerRef == Ref("class", CementExtensionHandler)
ConfigHandlerRef == Ref("class", Class("config", "configparser"))
LogHandlerRef == Ref("class", Class("log", "logging"))
PluginHandlerRef == Ref("class", Class("plugin", "cement"))

\* class Meta with what the application's author passes at construction
Meta(d, files, exts, sigset) ==
    [defaults |-> d, config_files |-> files, extensions |-> exts,
     catch_signals |-> sigset, extension_handler |-> ExtensionHandlerRef,
     config_handler |-> ConfigHandlerRef]

\* Meta.core_extensions
CoreExtensions ==
    <<"ext_nulloutput", "ext_plugin", "ext_configparser", "ext_logging",
      "ext_argparse">>

\* the handler class an extension module registers
ExtensionClass(e) ==
    CASE e = "ext_nulloutput"   -> Class("output", "null")
      [] e = "ext_plugin"       -> Class("plugin", "cement")
      [] e = "ext_configparser" -> Class("config", "configparser")
      [] e = "ext_logging"      -> Class("log", "logging")
      [] e = "ext_argparse"     -> Class("argument", "argparse")
      [] e = "ext_json"         -> Class("output", "json")

\* ext.load_extensions(names)
LoadExtensions(hs, names) ==
    HandlerRegisterAll(hs, [i \in DOMAIN names |-> ExtensionClass(names[i])])

\* backend.hooks = {} at the start of the lay-down, left out
KeepHooks(h) == h

\* backend.hooks = {}
StartCleanHooks(h) == EmptyMap

\* backend.handlers = {}
StartCleanHandlers(hs) == EmptyMap

\* the console-suppression hack with the test for '--debug' left out
SuppressOutputDespiteDebug(a) ==
    \E flag \in {"--quiet", "--json", "--yaml"} : flag \in Range(a)

\* the console-suppression hack of _lay_cement
SuppressOutput(a) ==
    /\ "--debug" \notin Range(a)
    /\ \E flag \in {"--quiet", "--json", "--yaml"} : flag \in Range(a)

\* self._meta.defaults['base']['debug'] = True when '--debug' is in argv
LaidDefaults(a, d) ==
    IF "--debug" \in Range(a)
    THEN [d EXCEPT !["base"] = Put(d["base"], "debug", "True")]
    ELSE d

NoHandlers ==
    [ext |-> None, config |-> None, log |-> None, plugin |-> None,
     args |-> None, output |-> None, controller |-> None]

\* CementApp.__init__ with argv a, defaults d, config files, extensions and
\* catch_signals, in a process whose hooks, handlers, signal handlers and
\* stdout are h, hs, sg, so: the state it leaves
Constructed(a, d, files, exts, sigset, h, hs, sg, so) ==
    [hooks    |-> HookDefineAll(StartCleanHooks(h), FrameworkHooks),
     handlers |-> HandlerRegister(
                      HandlerDefineAll(StartCleanHandlers(hs), Interfaces),
                      CementExtensionHandler),
     meta     |-> Meta(LaidDefaults(a, d), files, exts, sigset),
     app      |-> NoHandlers,
     config   |-> EmptyMap,
     argv     |-> a,
     argdests |-> {},
     sigs     |-> sg,
     stdout   |-> IF SuppressOutput(a) THEN "NullOut" ELSE so]

(***************************************************************************)
(* Control: the operation in progress, its trace and how it ends.          *)
(***************************************************************************)
\* the state an operation starts from
Snapshot ==
    [app |-> app, argv |-> argv, config |-> config, hooks |-> hooks,
     handlers |-> handlers]

\* the events of for res in hook.run(name, arg)
Dispatch(name, arg) == <<Ev("hook", name)>> \o CallEvents(name, arg)

\* the body of setup(), statement by statement
SetupOrderConfigFirst ==
    <<"pre_setup_hook", "_setup_signals", "_setup_config_handler",
      "_setup_extension_handler", "_validate_required_config",
      "validate_config", "_setup_log_handler", "_setup_plugin_handler",
      "_setup_arg_handler", "_setup_output_handler",
      "_setup_controller_handler", "post_setup_hook">>

SetupOrder ==
    <<"pre_setup_hook", "_setup_signals", "_setup_extension_handler",
      "_setup_config_handler", "_validate_required_config",
      "validate_config", "_setup_log_handler", "_setup_plugin_handler",
      "_setup_arg_handler", "_setup_output_handler",
      "_setup_controller_handler", "post_setup_hook">>

\* the body of run() with the controller or the parser before the pre-run
\* hooks
RunOrderStepFirst == <<"dispatch_or_parse", "pre_run_hook", "post_run_hook">>

\* the body of run()
RunOrder == <<"pre_run_hook", "dispatch_or_parse", "post_run_hook">>

\* the statement after step, "idle" after the last
After(order, step) ==
    LET i == CHOOSE j \in DOMAIN order : order[j] = step
    IN  IF i < Len(order) THEN order[i + 1] ELSE "idle"

\* the step at pc ends: with exception e the operation is left, else control
\* moves on in order
Ends(order, e) ==
    /\ exc' = e
    /\ pc' = IF e = None THEN After(order, pc) ELSE "idle"

Begin(name, order) ==
    /\ pc = "idle"
    /\ op' = name
    /\ pc' = order[1]
    /\ exc' = None
    /\ trace' = <<>>
    /\ signum' = None
    /\ before' = Snapshot
    /\ called' = called \cup {name}

\* an operation modelled as one step: what it did and how it ended
Atomic(name, events, e) ==
    /\ pc = "idle"
    /\ op' = name
    /\ pc' = "idle"
    /\ exc' = e
    /\ trace' = events
    /\ signum' = None
    /\ before' = Snapshot
    /\ called' = called \cup {name}

(***************************************************************************)
(* What the application's author does around the application.              *)
(***************************************************************************)
\* app = CementApp(name, argv=a, defaults=d, config_files=..., ...)
LayCement(a, d, files, exts, sigset) ==
    LET c == Constructed(a, d, files, exts, sigset, hooks, handlers, sigs,
                         stdout)
    IN  /\ pc = "idle"
        /\ hooks' = c.hooks
        /\ handlers' = c.handlers
        /\ meta' = c.meta
        /\ app' = c.app
        /\ config' = c.config
        /\ argv' = c.argv
        /\ argdests' = c.argdests
        /\ sigs' = c.sigs
        /\ stdout' = c.stdout
        /\ op' = "lay_cement"
        /\ pc' = "idle"
        /\ exc' = None
        /\ trace' = <<>>
        /\ data' = None
        /\ out_text' = None
        /\ closed' = FALSE
        /\ parsed_args' = EmptyMap
        /\ signum' = None
        /\ before' = Snapshot
        /\ called' = {}
        /\ since' = {}

\* the state a process is in after its first CementApp(...)
Laid(a, d, files, exts, sigset) ==
    LET c == Constructed(a, d, files, exts, sigset, EmptyMap, EmptyMap, {},
                         "console")
    IN  /\ hooks = c.hooks
        /\ handlers = c.handlers
        /\ meta = c.meta
        /\ app = c.app
        /\ config = c.config
        /\ argv = c.argv
        /\ argdests = c.argdests
        /\ sigs = c.sigs
        /\ stdout = c.stdout
        /\ op = "lay_cement"
        /\ pc = "idle"
        /\ exc = None
        /\ trace = <<>>
        /\ data = None
        /\ out_text = None
        /\ closed = FALSE
        /\ parsed_args = EmptyMap
        /\ signum = None
        /\ before = [app |-> c.app, argv |-> c.argv, config |-> c.config,
                     hooks |-> EmptyMap, handlers |-> EmptyMap]
        /\ called = {}
        /\ since = {}

\* the callables registered, over all hooks
RECURSIVE SumLen(_, _)
SumLen(h, names) ==
    IF names = {} THEN 0
    ELSE LET n == CHOOSE x \in names : TRUE
         IN  Len(h[n]) + SumLen(h, names \ {n})

\* hook.define(name) by the author
DefineHook(name) ==
    /\ pc = "idle"
    /\ name \notin DOMAIN hooks
    /\ hooks' = HookDefine(hooks, name)
    /\ since' = since \cup {<<"hook.define", name, "">>}
    /\ UNCHANGED <<handlers, meta, app, config, argv, argdests, sigs, stdout,
                   pc, op, exc, trace, data, out_text, closed,
                   parsed_args, signum, before, called>>

\* hook.register(name, fn) by the author
RegisterHook(name, fn) ==
    /\ pc = "idle"
    /\ name \in DOMAIN hooks
    /\ SumLen(hooks, DOMAIN hooks) < MaxHooks
    /\ hooks' = HookRegister(hooks, name, fn)
    /\ since' = since \cup {<<"hook.register", name, fn>>}
    /\ UNCHANGED <<handlers, meta, app, config, argv, argdests, sigs, stdout,
                   pc, op, exc, trace, data, out_text, closed,
                   parsed_args, signum, before, called>>

\* the handler classes the author has registered
AuthorRegistered ==
    {c \in AuthorClasses : Registered(handlers, c.type, c.label)}

\* handler.register(cls) by the author
RegisterHandler(c) ==
    /\ pc = "idle"
    /\ c.type \in DOMAIN handlers
    /\ ~Registered(handlers, c.type, c.label)
    /\ Cardinality(AuthorRegistered) < MaxRegistered
    /\ handlers' = HandlerRegister(handlers, c)
    /\ since' = since \cup {<<"handler.register", c.type, c.label>>}
    /\ UNCHANGED <<hooks, meta, app, config, argv, argdests, sigs, stdout,
                   pc, op, exc, trace, data, out_text, closed,
                   parsed_args, signum, before, called>>

\* app.controller = cls(), before setup()
SupplyController(label) ==
    /\ pc = "idle"
    /\ app.controller = None
    /\ app' = [app EXCEPT !.controller = label]
    /\ UNCHANGED <<hooks, handlers, meta, config, argv, argdests, sigs,
                   stdout, pc, op, exc, trace, data, out_text, closed,
                   parsed_args, signum, before, called, since>>

\* handler.define(interface) by the author
DefineInterface(type) ==
    /\ pc = "idle"
    /\ type \notin DOMAIN handlers
    /\ handlers' = HandlerDefine(handlers, type)
    /\ since' = since \cup {<<"handler.define", type, "">>}
    /\ UNCHANGED <<hooks, meta, app, config, argv, argdests, sigs, stdout,
                   pc, op, exc, trace, data, out_text, closed,
                   parsed_args, signum, before, called>>

(***************************************************************************)
(* CementApp.setup()                                                       *)
(***************************************************************************)
SetupBegin ==
    /\ Begin("setup", SetupOrder)
    /\ UNCHANGED <<hooks, handlers, meta, app, config, argv, argdests, sigs,
                   stdout, data, out_text, closed,
                   parsed_args, since>>

\* for res in hook.run('cement_pre_setup_hook', self): pass
PreSetupHook ==
    /\ pc = "pre_setup_hook"
    /\ trace' = trace \o Dispatch("cement_pre_setup_hook", "app")
    /\ Ends(SetupOrder,
            IF HookRaised("cement_pre_setup_hook") THEN "HookError" ELSE None)
    /\ UNCHANGED <<hooks, handlers, meta, app, config, argv, argdests, sigs,
                   stdout, op, data, out_text, closed,
                   parsed_args, signum, before, called, since>>

\* _setup_signals
SetupSignals ==
    /\ pc = "_setup_signals"
    /\ trace' = Append(trace, Ev("step", "_setup_signals"))
    /\ sigs' = sigs \cup meta.catch_signals
    /\ Ends(SetupOrder, None)
    /\ UNCHANGED <<hooks, handlers, meta, app, config, argv, argdests,
                   stdout, op, data, out_text, closed,
                   parsed_args, signum, before, called, since>>

\* _setup_extension_handler
SetupExtensionHandler ==
    LET r == ResolveHandler(handlers, app.config, config, "extension",
                            meta.extension_handler)
    IN  /\ pc = "_setup_extension_handler"
        /\ config' = r.config
        /\ IF r.exc = None
           THEN /\ app' = [app EXCEPT !.ext = r.han]
                /\ handlers' = LoadExtensions(
                                   LoadExtensions(r.handlers, CoreExtensions),
                                   meta.extensions)
                /\ trace' = trace \o
                       <<Ev("resolve", "extension"),
                         Ev("load_extensions", "core_extensions"),
                         Ev("load_extensions", "extensions")>>
           ELSE /\ app' = app
                /\ handlers' = r.handlers
                /\ trace' = Append(trace, Ev("resolve", "extension"))
        /\ Ends(SetupOrder, r.exc)
        /\ UNCHANGED <<hooks, meta, argv, argdests, sigs, stdout, op, data,
                       out_text, closed,
                   parsed_args, signum, before, called, since>>

RECURSIVE ParseFiles(_, _)
ParseFiles(cfg, files) ==
    IF files = <<>> THEN cfg
    ELSE ParseFiles(ParseFile(cfg, Head(files)), Tail(files))

\* _setup_config_handler
SetupConfigHandler ==
    LET r == ResolveHandler(handlers, app.config, config, "config",
                            meta.config_handler)
    IN  /\ pc = "_setup_config_handler"
        /\ handlers' = r.handlers
        /\ IF r.exc = None
           THEN /\ app' = [app EXCEPT !.config = r.han]
                /\ config' = ParseFiles(ConfigSetup(meta), meta.config_files)
                /\ trace' = trace \o <<Ev("resolve", "config")>> \o
                       [i \in DOMAIN meta.config_files |->
                           Ev("parse_file", meta.config_files[i])]
           ELSE /\ app' = app
                /\ config' = r.config
                /\ trace' = Append(trace, Ev("resolve", "config"))
        /\ Ends(SetupOrder, r.exc)
        /\ UNCHANGED <<hooks, meta, argv, argdests, sigs, stdout, op, data,
                       out_text, closed,
                   parsed_args, signum, before, called, since>>

\* _validate_required_config
ValidateRequiredConfig ==
    /\ pc = "_validate_required_config"
    /\ trace' = Append(trace, Ev("step", "_validate_required_config"))
    /\ Ends(SetupOrder, None)
    /\ UNCHANGED <<hooks, handlers, meta, app, config, argv, argdests, sigs,
                   stdout, op, data, out_text, closed,
                   parsed_args, signum, before, called, since>>

\* validate_config
ValidateConfig ==
    /\ pc = "validate_config"
    /\ trace' = Append(trace, Ev("step", "validate_config"))
    /\ Ends(SetupOrder, None)
    /\ UNCHANGED <<hooks, handlers, meta, app, config, argv, argdests, sigs,
                   stdout, op, data, out_text, closed,
                   parsed_args, signum, before, called, since>>

\* _setup_log_handler
SetupLogHandler ==
    LET r == ResolveHandler(handlers, app.config, config, "log",
                            LogHandlerRef)
    IN  /\ pc = "_setup_log_handler"
        /\ handlers' = r.handlers
        /\ config' = r.config
        /\ app' = IF r.exc = None THEN [app EXCEPT !.log = r.han] ELSE app
        /\ trace' = Append(trace, Ev("resolve", "log"))
        /\ Ends(SetupOrder, r.exc)
        /\ UNCHANGED <<hooks, meta, argv, argdests, sigs, stdout, op, data,
                       out_text, closed,
                   parsed_args, signum, before, called, since>>

\* _setup_plugin_handler
SetupPluginHandler ==
    LET r == ResolveHandler(handlers, app.config, config, "plugin",
                            PluginHandlerRef)
        e == IF r.exc = None /\ ~HasOption(r.config, "plugins")
             THEN "NoOptionError" ELSE r.exc
    IN  /\ pc = "_setup_plugin_handler"
        /\ handlers' = r.handlers
        /\ config' = r.config
        /\ app' = IF r.exc = None THEN [app EXCEPT !.plugin = r.han] ELSE app
        /\ trace' = IF e = None
                    THEN trace \o <<Ev("resolve", "plugin"),
                                    Ev("load_plugins",
                                       ConfigGet(r.config, "plugins"))>>
                    ELSE Append(trace, Ev("resolve", "plugin"))
        /\ Ends(SetupOrder, e)
        /\ UNCHANGED <<hooks, meta, argv, argdests, sigs, stdout, op, data,
                       out_text, closed,
                   parsed_args, signum, before, called, since>>

\* _setup_arg_handler
SetupArgHandler ==
    LET known == app.config # None /\ HasOption(config, "arg_handler")
        name  == IF app.args # None THEN app.args
                 ELSE IF ~known THEN None
                 ELSE ConfigGet(config, "arg_handler")
        found == app.args # None \/ Registered(handlers, "argument", name)
        d     == SetHandlerDefaults(app.config, config,
                                    Class("argument", name))
        e     == IF app.args = None /\ app.config = None
                 THEN "AttributeError"
                 ELSE IF app.args = None /\ ~known THEN "NoOptionError"
                 ELSE IF ~found THEN "NotFoundError"
                 ELSE IF app.config = None THEN "AttributeError"
                 ELSE d.exc
    IN  /\ pc = "_setup_arg_handler"
        /\ trace' = Append(trace, Ev("resolve", "argument"))
        /\ app' = IF found THEN [app EXCEPT !.args = name] ELSE app
        /\ config' = IF found THEN d.config ELSE config
        /\ argdests' = IF e = None
                       THEN argdests \cup {"debug", "suppress_output"}
                       ELSE argdests
        /\ Ends(SetupOrder, e)
        /\ UNCHANGED <<hooks, handlers, meta, argv, sigs, stdout, op, data,
                       out_text, closed,
                   parsed_args, signum, before, called, since>>

\* _setup_output_handler, with self.output = out and the store cfg: gives
\* the exception raised, self.output and the store afterwards
OutputHandlerSetup(hs, confHandler, cfg, out) ==
    LET name == ConfigGet(cfg, "output_handler")
    IN  IF confHandler = None /\ out = None
        THEN [exc |-> "AttributeError", output |-> out, config |-> cfg]
        ELSE IF out = None /\ name = None
        THEN [exc |-> None, output |-> None, config |-> cfg]
        ELSE IF out = None /\ ~Registered(hs, "output", name)
        THEN [exc |-> "NotFoundError", output |-> None, config |-> cfg]
        ELSE LET h == IF out = None THEN name ELSE out
                 d == SetHandlerDefaults(confHandler, cfg, Class("output", h))
             IN  [exc |-> d.exc, output |-> h, config |-> d.config]

SetupOutputHandler ==
    LET r == OutputHandlerSetup(handlers, app.config, config, app.output)
    IN  /\ pc = "_setup_output_handler"
        /\ trace' = Append(trace, Ev("resolve", "output"))
        /\ app' = [app EXCEPT !.output = r.output]
        /\ config' = r.config
        /\ Ends(SetupOrder, r.exc)
        /\ UNCHANGED <<hooks, handlers, meta, argv, argdests, sigs, stdout,
                       op, data, out_text, closed,
                   parsed_args, signum, before, called, since>>

\* for contr in handler.list('controller'):
\*     self._set_handler_defaults(contr())
RECURSIVE ControllerDefaults(_, _, _)
ControllerDefaults(confHandler, cfg, labels) ==
    IF labels = <<>> THEN [exc |-> None, config |-> cfg]
    ELSE LET d == SetHandlerDefaults(confHandler, cfg,
                                     Class("controller", Head(labels)))
         IN  IF d.exc # None THEN d
             ELSE ControllerDefaults(confHandler, d.config, Tail(labels))

\* the controller _setup_controller_handler settles on, the command line
\* passed over
SelectControllerNoArgv(hs, cfg, supplied, a) ==
    LET named == ConfigGet(cfg, "controller_handler")
    IN  IF supplied # None THEN [controller |-> supplied, argv |-> a]
        ELSE IF Registered(hs, "controller", named)
        THEN [controller |-> named, argv |-> a]
        ELSE [controller |-> None, argv |-> a]

\* the controller _setup_controller_handler settles on, with
\* self.argv.pop(0) left out
SelectControllerKeepArgv(hs, cfg, supplied, a) ==
    LET named == ConfigGet(cfg, "controller_handler")
        first == IF supplied # None THEN supplied
                 ELSE IF Registered(hs, "controller", named) THEN named
                 ELSE None
    IN  IF Len(a) > 0 /\ Registered(hs, "controller", SubDash(a[1]))
        THEN [controller |-> SubDash(a[1]), argv |-> a]
        ELSE [controller |-> first, argv |-> a]

\* the controller _setup_controller_handler settles on, and self.argv
\* afterwards: self.controller is supplied, the store cfg, self.argv a
SelectController(hs, cfg, supplied, a) ==
    LET named == ConfigGet(cfg, "controller_handler")
        first == IF supplied # None THEN supplied
                 ELSE IF Registered(hs, "controller", named) THEN named
                 ELSE None
    IN  IF Len(a) > 0 /\ Registered(hs, "controller", SubDash(a[1]))
        THEN [controller |-> SubDash(a[1]), argv |-> Tail(a)]
        ELSE [controller |-> first, argv |-> a]

\* _setup_controller_handler
SetupControllerHandler ==
    LET d   == ControllerDefaults(app.config, config, handlers["controller"])
        e   == IF d.exc # None THEN d.exc
               ELSE IF app.config = None /\ app.controller = None
               THEN "AttributeError"
               ELSE None
        sel == SelectController(handlers, d.config, app.controller, argv)
    IN  /\ pc = "_setup_controller_handler"
        /\ trace' = Append(trace, Ev("resolve", "controller"))
        /\ config' = d.config
        /\ app' = IF e = None THEN [app EXCEPT !.controller = sel.controller]
                  ELSE app
        /\ argv' = IF e = None THEN sel.argv ELSE argv
        /\ Ends(SetupOrder, e)
        /\ UNCHANGED <<hooks, handlers, meta, argdests, sigs, stdout, op,
                       data, out_text, closed,
                   parsed_args, signum, before, called, since>>

\* for res in hook.run('cement_post_setup_hook', self): pass
PostSetupHook ==
    /\ pc = "post_setup_hook"
    /\ trace' = trace \o Dispatch("cement_post_setup_hook", "app")
    /\ Ends(SetupOrder,
            IF HookRaised("cement_post_setup_hook") THEN "HookError" ELSE None)
    /\ UNCHANGED <<hooks, handlers, meta, app, config, argv, argdests, sigs,
                   stdout, op, data, out_text, closed,
                   parsed_args, signum, before, called, since>>

(***************************************************************************)
(* CementApp.run() and _parse_args                                         *)
(***************************************************************************)
\* what add_argument may be given as dest, beside the two built-in flags
UserDests == {"foo", "_p", "output_handler"}

\* the values args.parse(argv) may give a member of parsed_args
MemberValues(m) ==
    CASE m = "debug"                        -> {None, "True"}
      [] m = "suppress_output"              -> {"True"}
      [] m = "output_handler"               -> {None, "json", "yaml"}
      [] OTHER                              -> {None, "bar"}

\* the parsed_args args.parse(argv) may give
Namespaces(dests) == {ns \in [dests -> {None, "True", "json", "yaml", "bar"}] :
                         \A m \in dests : ns[m] \in MemberValues(m)}

\* the loop body of _parse_args for one member, with the test
\* "member in self.config.keys(section)" left out
FoldMemberAnywhere(cfg, ns, member) ==
    IF StartsWithUnderscore(member) THEN cfg
    ELSE IF ns[member] = None THEN cfg
    ELSE [s \in DOMAIN cfg |-> Put(cfg[s], member, ns[member])]

\* the loop body of _parse_args for one member of parsed_args
FoldMember(cfg, ns, member) ==
    IF StartsWithUnderscore(member) THEN cfg
    ELSE IF ns[member] = None THEN cfg
    ELSE [s \in DOMAIN cfg |->
             IF member \in DOMAIN cfg[s]
             THEN ConfigSet(cfg, s, member, ns[member])[s]
             ELSE cfg[s]]

\* for member in dir(self.args.parsed_args): ...
RECURSIVE Fold(_, _, _)
Fold(cfg, ns, members) ==
    IF members = {} THEN cfg
    ELSE LET m == CHOOSE x \in members : TRUE
         IN  Fold(FoldMember(cfg, ns, m), ns, members \ {m})

\* _parse_args without its last part: the output handler is left as it is
\* whatever base.output_handler has become
ParseArgsKeepOutput(hs, a, cfg, ns) ==
    IF a.config = None
    THEN [exc |-> "AttributeError", output |-> a.output, config |-> cfg]
    ELSE [exc |-> None, output |-> a.output,
          config |-> Fold(cfg, ns, DOMAIN ns)]

\* _parse_args once args.parse(argv) has given ns: gives the exception
\* raised, self.output and the store afterwards
ParseArgs(hs, a, cfg, ns) ==
    IF a.config = None
    THEN [exc |-> "AttributeError", output |-> a.output, config |-> cfg]
    ELSE LET folded == Fold(cfg, ns, DOMAIN ns)
         IN  IF a.output # None
                  /\ ConfigGet(folded, "output_handler") = a.output
             THEN [exc |-> None, output |-> a.output, config |-> folded]
             ELSE OutputHandlerSetup(hs, a.config, folded, None)

RunBegin ==
    /\ Begin("run", RunOrder)
    /\ UNCHANGED <<hooks, handlers, meta, app, config, argv, argdests, sigs,
                   stdout, data, out_text, closed,
                   parsed_args, since>>

\* the pre-run loop inside a try/except that passes over what a callable
\* raises
PreRunHookSwallowing ==
    /\ pc = "pre_run_hook"
    /\ trace' = trace \o Dispatch("cement_pre_run_hook", "app")
    /\ Ends(RunOrder, None)
    /\ UNCHANGED <<hooks, handlers, meta, app, config, argv, argdests, sigs,
                   stdout, op, data, out_text, closed,
                   parsed_args, signum, before, called, since>>

\* for res in hook.run('cement_pre_run_hook', self): pass
PreRunHook ==
    /\ pc = "pre_run_hook"
    /\ trace' = trace \o Dispatch("cement_pre_run_hook", "app")
    /\ Ends(RunOrder,
            IF HookRaised("cement_pre_run_hook") THEN "HookError" ELSE None)
    /\ UNCHANGED <<hooks, handlers, meta, app, config, argv, argdests, sigs,
                   stdout, op, data, out_text, closed,
                   parsed_args, signum, before, called, since>>

\* self.controller._dispatch()
Dispatch_ ==
    /\ pc = "dispatch_or_parse"
    /\ app.controller # None
    /\ trace' = Append(trace, Ev("dispatch", app.controller))
    /\ Ends(RunOrder, None)
    /\ UNCHANGED <<hooks, handlers, meta, app, config, argv, argdests, sigs,
                   stdout, op, data, out_text, closed,
                   parsed_args, signum, before, called, since>>

\* self._parse_args() returning at once when there is no argument handler
ParseArgsUnsetSilent ==
    /\ pc = "dispatch_or_parse"
    /\ app.controller = None
    /\ app.args = None
    /\ trace' = Append(trace, Ev("parse", "argv"))
    /\ Ends(RunOrder, None)
    /\ UNCHANGED <<hooks, handlers, meta, app, config, argv, argdests, sigs,
                   stdout, op, data, out_text, closed,
                   parsed_args, signum, before, called, since>>

\* self._parse_args() on an application without an argument handler
ParseArgsUnset ==
    /\ pc = "dispatch_or_parse"
    /\ app.controller = None
    /\ app.args = None
    /\ trace' = Append(trace, Ev("parse", "argv"))
    /\ Ends(RunOrder, "AttributeError")
    /\ UNCHANGED <<hooks, handlers, meta, app, config, argv, argdests, sigs,
                   stdout, op, data, out_text, closed,
                   parsed_args, signum, before, called, since>>

\* self._parse_args()
ParseArgsStep ==
    /\ pc = "dispatch_or_parse"
    /\ app.controller = None
    /\ app.args # None
    /\ \E ns \in Namespaces(argdests) :
          LET r == ParseArgs(handlers, app, config, ns)
          IN  /\ parsed_args' = ns
              /\ config' = r.config
              /\ app' = [app EXCEPT !.output = r.output]
              /\ trace' = Append(trace, Ev("parse", "argv"))
              /\ Ends(RunOrder, r.exc)
    /\ UNCHANGED <<hooks, handlers, meta, argv, argdests, sigs, stdout, op,
                   data, out_text, closed,
                   signum, before, called, since>>

\* for res in hook.run('cement_post_run_hook', self): pass
PostRunHook ==
    /\ pc = "post_run_hook"
    /\ trace' = trace \o Dispatch("cement_post_run_hook", "app")
    /\ Ends(RunOrder,
            IF HookRaised("cement_post_run_hook") THEN "HookError" ELSE None)
    /\ UNCHANGED <<hooks, handlers, meta, app, config, argv, argdests, sigs,
                   stdout, op, data, out_text, closed,
                   parsed_args, signum, before, called, since>>

\* app.add_arg(..., dest=dest)
AddArg(dest) ==
    /\ Atomic("add_arg", <<Ev("add_argument", dest)>>,
              IF app.args = None THEN "AttributeError" ELSE None)
    /\ argdests' = IF app.args = None THEN argdests ELSE argdests \cup {dest}
    /\ UNCHANGED <<hooks, handlers, meta, app, config, argv, sigs, stdout,
                   data, out_text, closed,
                   parsed_args, since>>

(***************************************************************************)
(* CementApp.close()                                                       *)
(***************************************************************************)
\* close() releasing the handler instances as well
CloseReleasing ==
    /\ Atomic("close", Dispatch("cement_on_close_hook", "app"),
              IF HookRaised("cement_on_close_hook") THEN "HookError" ELSE None)
    /\ closed' = (closed \/ ~HookRaised("cement_on_close_hook"))
    /\ app' = NoHandlers
    /\ UNCHANGED <<hooks, handlers, meta, config, argv, argdests, sigs,
                   stdout, data, out_text, parsed_args, since>>

Close ==
    /\ Atomic("close", Dispatch("cement_on_close_hook", "app"),
              IF HookRaised("cement_on_close_hook") THEN "HookError" ELSE None)
    /\ closed' = (closed \/ ~HookRaised("cement_on_close_hook"))
    /\ UNCHANGED <<hooks, handlers, meta, app, config, argv, argdests, sigs,
                   stdout, data, out_text,
                   parsed_args, since>>

(***************************************************************************)
(* CementApp.render()                                                      *)
(***************************************************************************)
\* the data render() may be given
RenderInputs == {"d0", "d1"}

\* self.output.render(data, template) of the output handlers
OutputRender(label, d) ==
    CASE label = "json" /\ d = "d0" -> "json(d0)"
      [] label = "json" /\ d = "d1" -> "json(d1)"
      [] label = "json" /\ d = "d2" -> "json(d2)"
      [] label = "null" /\ d = "d0" -> "null(d0)"
      [] label = "null" /\ d = "d1" -> "null(d1)"
      [] label = "null" /\ d = "d2" -> "null(d2)"

\* a loop "for res in calls: if type(res) is t: value = res", from value v:
\* the value after the loop
RECURSIVE Replaced(_, _, _)
Replaced(v, calls, t) ==
    IF calls = <<>> THEN v
    ELSE Replaced(IF ~Raises(Head(calls)) /\ ResultType(Head(calls)) = t
                  THEN ResultValue(Head(calls))
                  ELSE v,
                  Tail(calls), t)

\* the text render() has before the post-render hooks run
OutText(out, d) == IF out = None THEN "" ELSE OutputRender(out, d)

\* the text after the post-render hooks
PostRendered(text) ==
    Replaced(text, HookCalls("cement_post_render_hook"), "str")

\* the pre-render loop with its type test left out
PreRenderedUnchecked(d) ==
    LET calls == HookCalls("cement_pre_render_hook")
    IN  IF calls = <<>> THEN d ELSE ResultValue(calls[Len(calls)])

\* the data after the pre-render hooks
PreRendered(d) ==
    Replaced(d, HookCalls("cement_pre_render_hook"), "dict")

\* render(d)
Render(d) ==
    LET d1   == PreRendered(d)
        t0   == OutText(app.output, d1)
        pre  == <<Ev("args", d)>> \o Dispatch("cement_pre_render_hook", d)
        mid  == IF app.output = None THEN <<>>
                ELSE <<<<"render", app.output, d1, t0>>>>
        post == Dispatch("cement_post_render_hook", t0)
    IN  IF HookRaised("cement_pre_render_hook")
        THEN /\ Atomic("render", pre, "HookError")
             /\ data' = d1
             /\ out_text' = None
        ELSE IF HookRaised("cement_post_render_hook")
        THEN /\ Atomic("render", pre \o mid \o post, "HookError")
             /\ data' = d1
             /\ out_text' = None
        ELSE /\ Atomic("render", pre \o mid \o post, None)
             /\ data' = d1
             /\ out_text' = PostRendered(t0)

RenderAny ==
    /\ \E d \in RenderInputs : Render(d)
    /\ UNCHANGED <<hooks, handlers, meta, app, config, argv, argdests, sigs,
                   stdout, closed, parsed_args, since>>

(***************************************************************************)
(* cement_signal_handler                                                   *)
(***************************************************************************)
\* the signals Meta.catch_signals may name
Signals == {"SIGTERM", "SIGINT"}

\* raise exc.CementSignalError(signum, frame), put before the hook has run
SignalEventsRaiseFirst(sig) ==
    <<Ev("signal", sig), Ev("raise", sig)>>
        \o Dispatch("cement_signal_hook", sig)

\* what cement_signal_handler(signum, frame) does, in order
SignalEvents(sig) ==
    <<Ev("signal", sig)>> \o Dispatch("cement_signal_hook", sig) \o
        (IF HookRaised("cement_signal_hook") THEN <<>>
         ELSE <<Ev("raise", sig)>>)

\* a signal whose handler is cement_signal_handler is delivered: whatever
\* operation is in progress is left with the exception raised
Signal(sig) ==
    /\ sig \in sigs
    /\ trace' = (IF pc = "idle" THEN <<>> ELSE trace) \o SignalEvents(sig)
    /\ op' = IF pc = "idle" THEN "signal" ELSE op
    /\ pc' = "idle"
    /\ exc' = IF HookRaised("cement_signal_hook") THEN "HookError"
              ELSE "CementSignalError"
    /\ signum' = IF HookRaised("cement_signal_hook") THEN None ELSE sig
    /\ UNCHANGED <<hooks, handlers, meta, app, config, argv, argdests, sigs,
                   stdout, data, out_text, closed, parsed_args, before, called, since>>

SignalAny == \E sig \in Signals : Signal(sig)

(***************************************************************************)
(* The lifecycle: an application laid down with some command line and     *)
(* defaults, its author registering controllers and supplying one, then    *)
(* setup(), run() and close() called in any order.                         *)
(***************************************************************************)
ArgvInputs == {<<>>, <<"my-c">>, <<"run", "-v">>, <<"-v", "base">>}

DefaultsInputs == {BackendDefaults(ctl, "null") : ctl \in {None, "base"}}

FilesInputs == {<<>>, <<"f_x", "f_ctl">>}

Controllers == {c \in AuthorClasses : c.type = "controller"}

Init ==
    \E a \in ArgvInputs, d \in DefaultsInputs, files \in FilesInputs :
        Laid(a, d, files, <<>>, {"SIGTERM", "SIGINT"})

\* the author registers and supplies before the first operation is called
Register == called = {} /\ \E c \in Controllers : RegisterHandler(c)

Supply == called = {} /\ \E c \in Controllers : SupplyController(c.label)

Setup ==
    \/ SetupBegin
    \/ PreSetupHook
    \/ SetupSignals
    \/ SetupExtensionHandler
    \/ SetupConfigHandler
    \/ ValidateRequiredConfig
    \/ ValidateConfig
    \/ SetupLogHandler
    \/ SetupPluginHandler
    \/ SetupArgHandler
    \/ SetupOutputHandler
    \/ SetupControllerHandler
    \/ PostSetupHook

Run ==
    \/ RunBegin
    \/ PreRunHook
    \/ Dispatch_
    \/ ParseArgsUnset
    \/ ParseArgsStep
    \/ PostRunHook

Next ==
    \/ Register
    \/ Supply
    \/ Setup
    \/ Run
    \/ Close

Spec == Init /\ [][Next]_vars

(***************************************************************************)
(* The lifecycle with hook callables: one fixed application, its author    *)
(* registering callables on one of the lifecycle hooks and maybe supplying *)
(* a controller, then setup(), run() and close() in any order.             *)
(***************************************************************************)
LifecycleHooks ==
    {"cement_pre_setup_hook", "cement_post_setup_hook",
     "cement_pre_run_hook", "cement_post_run_hook", "cement_on_close_hook"}

InitHooks ==
    Laid(<<"-v">>, BackendDefaults(None, "null"), <<"f_x", "f_ctl">>, <<>>,
         {"SIGTERM", "SIGINT"})

RegisterLifecycleHook ==
    /\ called = {}
    /\ \E name \in LifecycleHooks, fn \in {"ret_none", "boom"} :
          /\ \A other \in LifecycleHooks \ {name} : hooks[other] = <<>>
          /\ RegisterHook(name, fn)

SupplyRun == called = {} /\ SupplyController("run")

NextHooks ==
    \/ RegisterLifecycleHook
    \/ SupplyRun
    \/ Setup
    \/ Run
    \/ Close

SpecHooks == InitHooks /\ [][NextHooks]_vars

(***************************************************************************)
(* run() parsing the command line: applications whose defaults hold the    *)
(* keys the parsed arguments may name, the author declaring arguments.     *)
(***************************************************************************)
RunDefaultsInputs ==
    {Merge(BackendDefaults(None, out), extra, TRUE) :
        out \in {None, "null"},
        extra \in {EmptyMap,
                   [base |-> [foo |-> "0"]],
                   [base |-> [foo |-> "0"], other |-> [foo |-> "1"]],
                   [other |-> [_p |-> "0"]]}}

InitRun ==
    \E d \in RunDefaultsInputs :
        Laid(<<"-v">>, d, <<>>, <<"ext_json">>, {})

DeclareArg ==
    /\ Cardinality(argdests \cap UserDests) < MaxUserArgs
    /\ \E dest \in UserDests \ argdests : AddArg(dest)

\* run() on an application that is given no controller
RunParsing ==
    \/ RunBegin
    \/ PreRunHook
    \/ ParseArgsUnset
    \/ ParseArgsStep
    \/ PostRunHook

NextRun ==
    \/ Setup
    \/ DeclareArg
    \/ RunParsing

SpecRun == InitRun /\ [][NextRun]_vars

(***************************************************************************)
(* render(): the author registering callables on the two render hooks.     *)
(***************************************************************************)
RenderHooks == {"cement_pre_render_hook", "cement_post_render_hook"}

RenderCallables == {"ret_none", "ret_dict1", "ret_dict2", "ret_str1",
                    "ret_str2", "boom"}

InitRender ==
    \E out \in {None, "null"} :
        Laid(<<>>, BackendDefaults(None, out), <<>>, <<>>, {})

RegisterRenderHook ==
    /\ called = {}
    /\ \E name \in RenderHooks, fn \in RenderCallables : RegisterHook(name, fn)

NextRender ==
    \/ RegisterRenderHook
    \/ Setup
    \/ RenderAny

SpecRender == InitRender /\ [][NextRender]_vars

(***************************************************************************)
(* Signals: delivered at any moment once setup() has installed the         *)
(* handler, callables registered on the signal hook.                       *)
(***************************************************************************)
InitSignal ==
    \E sigset \in {{}, {"SIGINT"}, {"SIGTERM", "SIGINT"}} :
        Laid(<<>>, BackendDefaults(None, "null"), <<>>, <<>>, sigset)

RegisterSignalHook ==
    /\ called = {}
    /\ \E fn \in {"ret_none", "ret_str1", "boom"} :
          RegisterHook("cement_signal_hook", fn)

NextSignal ==
    \/ RegisterSignalHook
    \/ Setup
    \/ SignalAny

SpecSignal == InitSignal /\ [][NextSignal]_vars

(***************************************************************************)
(* Lay-downs: the author defining hooks and interfaces and registering     *)
(* callables and handlers, and laying down a new application.              *)
(***************************************************************************)
InitLay == Laid(<<>>, BackendDefaults("base", "null"), <<>>, <<>>, {})

\* the author defines and registers before the first operation is called
AuthorDefines ==
    /\ called = {}
    /\ \/ DefineHook("my_hook")
       \/ DefineInterface("my_interface")

AuthorRegisters ==
    /\ called = {}
    /\ \/ \E name \in {"cement_pre_setup_hook", "my_hook"} :
             RegisterHook(name, "ret_none")
       \/ \E c \in {Class("controller", "base"), Class("output", "json")} :
             RegisterHandler(c)

LayCementAgain ==
    LayCement(<<>>, BackendDefaults("base", "null"), <<>>, <<>>, {})

NextLay ==
    \/ AuthorDefines
    \/ AuthorRegisters
    \/ LayCementAgain
    \/ Setup
    \/ Close

SpecLay == InitLay /\ [][NextLay]_vars

(***************************************************************************)
(* The defaults merger on its own: a resolved configuration handler with   *)
(* some store, and _set_handler_defaults applied to a handler.             *)
(***************************************************************************)
MergeSections ==
    {EmptyMap, [x |-> "1"], [y |-> "1"], [x |-> "1", y |-> "1"],
     [x |-> "1", z |-> "1"], [indent |-> "1"]}

MergeStores ==
    {Merge(Merge(EmptyMap, b, TRUE), o, TRUE) :
        b \in {[base |-> sec] : sec \in MergeSections} \cup {EmptyMap},
        o \in {[output |-> sec] : sec \in MergeSections} \cup {EmptyMap}}

MergeClasses ==
    AuthorClasses \cup {Class("log", "logging"), Class("output", "null")}

InitMerge ==
    \E cfg \in MergeStores :
        LET c == Constructed(<<>>, BackendDefaults(None, None), <<>>, <<>>,
                             {}, EmptyMap, EmptyMap, {}, "console")
        IN  /\ hooks = c.hooks
            /\ handlers = c.handlers
            /\ meta = c.meta
            /\ app = [c.app EXCEPT !.config = "configparser"]
            /\ config = cfg
            /\ argv = c.argv
            /\ argdests = c.argdests
            /\ sigs = c.sigs
            /\ stdout = c.stdout
            /\ op = "lay_cement"
            /\ pc = "idle"
            /\ exc = None
            /\ trace = <<>>
            /\ data = None
            /\ out_text = None
            /\ closed = FALSE
            /\ parsed_args = EmptyMap
            /\ signum = None
            /\ before = [app |-> c.app, argv |-> c.argv, config |-> c.config,
                         hooks |-> EmptyMap, handlers |-> EmptyMap]
            /\ called = {}
            /\ since = {}

\* self._set_handler_defaults(cls())
ApplyDefaults(c) ==
    LET r == SetHandlerDefaults(app.config, config, c)
    IN  /\ Atomic("_set_handler_defaults",
                  <<Ev(c.type, c.label)>>, r.exc)
        /\ config' = r.config
        /\ UNCHANGED <<hooks, handlers, meta, app, argv, argdests, sigs,
                       stdout, data, out_text, closed, parsed_args, since>>

NextMerge == \E c \in MergeClasses : ApplyDefaults(c)

SpecMerge == InitMerge /\ [][NextMerge]_vars

(***************************************************************************)
(* Properties of setup().                                                  *)
(***************************************************************************)
IsPrefix(p, q) == Len(p) <= Len(q) /\ SubSeq(q, 1, Len(p)) = p

\* what a setup() that runs to its end does, in the order the steps are
\* to be taken
ExpectedSetupTrace ==
    Dispatch("cement_pre_setup_hook", "app")
    \o <<Ev("step", "_setup_signals"),
         Ev("resolve", "extension"),
         Ev("load_extensions", "core_extensions"),
         Ev("load_extensions", "extensions"),
         Ev("resolve", "config")>>
    \o [i \in DOMAIN meta.config_files |->
           Ev("parse_file", meta.config_files[i])]
    \o <<Ev("step", "_validate_required_config"),
         Ev("step", "validate_config"),
         Ev("resolve", "log"),
         Ev("resolve", "plugin"),
         Ev("load_plugins", "[]"),
         Ev("resolve", "argument"),
         Ev("resolve", "output"),
         Ev("resolve", "controller")>>
    \o Dispatch("cement_post_setup_hook", "app")

\* C1: at every moment of a setup() what it has done so far is an initial
\* part of: pre-setup hooks, signal handlers, extension handler resolved,
\* core extensions loaded, the user's extensions loaded, config handler
\* resolved, the config files parsed in list order, the two validations,
\* log, plugin handler and plugins, argument, output, controller, post-setup
\* hooks; and a setup() that returns has done all of it.
C1_SetupOrder ==
    op = "setup" /\ exc # "CementSignalError" =>
        /\ IsPrefix(trace, ExpectedSetupTrace)
        /\ (pc = "idle" /\ exc = None => trace = ExpectedSetupTrace)

C1_Witness ==
    /\ op = "setup"
    /\ pc = "idle"
    /\ exc = None
    /\ Len(meta.config_files) = 2
    /\ app.controller # None

(***************************************************************************)
(* Properties of run() and close().                                        *)
(***************************************************************************)
\* C2 as stated: run() on an application on which setup() has not been
\* called fails with LifecycleError.
C2_RunBeforeSetupLifecycleError ==
    op = "run" /\ "setup" \notin called /\ pc = "idle" =>
        exc = "LifecycleError"

\* C2 as amended: run() makes no lifecycle check.  Called before setup() it
\* fires the pre-run hooks first; then with no controller supplied it fails
\* on the unset argument handler (an AttributeError, before any post-run
\* hook), and with a controller supplied it dispatches it and returns.
C2_RunBeforeSetup ==
    op = "run" /\ "setup" \notin called /\ pc = "idle"
        /\ exc \notin {"HookError", "CementSignalError"} =>
        IF before.app.controller = None
        THEN /\ exc = "AttributeError"
             /\ trace = Dispatch("cement_pre_run_hook", "app")
                            \o <<Ev("parse", "argv")>>
        ELSE /\ exc = None
             /\ trace = Dispatch("cement_pre_run_hook", "app")
                            \o <<Ev("dispatch", before.app.controller)>>
                            \o Dispatch("cement_post_run_hook", "app")

C2_Witness ==
    /\ op = "run"
    /\ "setup" \notin called
    /\ pc = "idle"
    /\ exc = "AttributeError"

\* C3 as stated: once close() has completed no later setup() or run() is
\* accepted: none fires lifecycle hooks, resolves handlers or dispatches.
C3_ClosedIsTerminal ==
    closed /\ op \in {"setup", "run"} => trace = <<>>

\* C3 as amended: the application keeps no lifecycle state.  close() only
\* runs the on-close hooks and leaves the application, its configuration,
\* its argument vector and the registries as they were, and a setup() or
\* run() called after close() is taken up like any other: it starts with
\* its pre-hooks and is never refused.
C3_NoLifecycleState ==
    /\ op = "close" /\ pc = "idle" =>
          /\ trace = Dispatch("cement_on_close_hook", "app")
          /\ Snapshot = before
    /\ closed /\ op = "setup" /\ pc = "idle" /\ exc # "CementSignalError" =>
          /\ trace # <<>>
          /\ trace[1] = Ev("hook", "cement_pre_setup_hook")
          /\ exc # "LifecycleError"
    /\ closed /\ op = "run" /\ pc = "idle" /\ exc # "CementSignalError" =>
          /\ trace # <<>>
          /\ trace[1] = Ev("hook", "cement_pre_run_hook")
          /\ exc # "LifecycleError"

C3_Witness ==
    /\ closed
    /\ op = "setup"
    /\ pc = "idle"
    /\ exc = None
    /\ "run" \in called

(***************************************************************************)
(* Controller selection.                                                   *)
(***************************************************************************)
\* the controller the command line names, if it is registered
ArgvController(a) ==
    IF Len(a) > 0 /\ Registered(handlers, "controller", SubDash(a[1]))
    THEN SubDash(a[1])
    ELSE None

\* the controller the configuration names, if it is registered
ConfigController ==
    IF Registered(handlers, "controller",
                  ConfigGet(config, "controller_handler"))
    THEN ConfigGet(config, "controller_handler")
    ELSE None

SetupReturned == op = "setup" /\ pc = "idle" /\ exc = None

\* C4 as stated: after setup() the active controller is the pre-supplied
\* one if there is one, else the one the configuration names, else the one
\* argv[0] names.
C4_SuppliedConfigArgv ==
    SetupReturned =>
        app.controller =
            IF before.app.controller # None THEN before.app.controller
            ELSE IF ConfigController # None THEN ConfigController
            ELSE ArgvController(before.argv)

\* C4 as amended: the precedence is positional argument > pre-supplied
\* controller > configuration: after setup() the active controller is the
\* one argv[0] names if that is registered, else the pre-supplied one, else
\* the one the configuration names; with all three available it is the one
\* argv[0] names.
C4_ArgvSuppliedConfig ==
    SetupReturned =>
        app.controller =
            IF ArgvController(before.argv) # None
            THEN ArgvController(before.argv)
            ELSE IF before.app.controller # None THEN before.app.controller
            ELSE ConfigController

C4_Witness ==
    /\ SetupReturned
    /\ before.app.controller # None
    /\ ConfigController # None
    /\ ArgvController(before.argv) # None
    /\ Cardinality({before.app.controller, ConfigController,
                    ArgvController(before.argv)}) = 3
    /\ app.controller = ArgvController(before.argv)


(***************************************************************************)
(* Properties of _parse_args.                                              *)
(***************************************************************************)
\* run() has ended after parsing the command line with a resolved
\* argument and configuration handler
ParsedDirectly ==
    /\ op = "run"
    /\ pc = "idle"
    /\ Ev("parse", "argv") \in Range(trace)
    /\ before.app.args # None
    /\ before.app.config # None

\* the store cfg with every key that is a member of ns, has no leading
\* underscore and a non-null value, set to that value
Folded(cfg, ns) ==
    [s \in DOMAIN cfg |->
        [k \in DOMAIN cfg[s] |->
            IF k \in DOMAIN ns /\ ~StartsWithUnderscore(k) /\ ns[k] # None
            THEN ns[k]
            ELSE cfg[s][k]]]

\* C5 as stated: after run() has parsed the arguments directly the
\* configuration differs from the one before only in the keys that already
\* existed and are named by a non-underscore, non-null parsed attribute;
\* no section or key is added.
C5_OnlyExistingKeysSet ==
    ParsedDirectly => config = Folded(before.config, parsed_args)

\* the output handler _parse_args resolves anew: the one base.output_handler
\* names after the fold, when it is registered and is not the current one
NewOutputHandler ==
    LET name == ConfigGet(Folded(before.config, parsed_args),
                          "output_handler")
    IN  IF name # before.app.output /\ Registered(handlers, "output", name)
        THEN name
        ELSE None

\* C5 as amended: the fold changes only existing keys, as stated; in
\* addition, when base.output_handler afterwards names a registered handler
\* that is not the current output handler, that handler is resolved and the
\* defaults it declares are added under 'output' where that section lacks
\* them.  Nothing else is added or changed.
C5_FoldThenOutputDefaults ==
    ParsedDirectly =>
        config =
            IF NewOutputHandler # None
                  /\ HasDefaults(Class("output", NewOutputHandler))
            THEN Merge(Folded(before.config, parsed_args),
                       [output |->
                           ClassDefaults(Class("output", NewOutputHandler))],
                       FALSE)
            ELSE Folded(before.config, parsed_args)

C5_Witness ==
    /\ ParsedDirectly
    /\ exc = None
    /\ DOMAIN parsed_args = {"debug", "suppress_output", "foo", "_p"}
    /\ parsed_args["foo"] = "bar"
    /\ parsed_args["debug"] = None
    /\ "other" \in DOMAIN before.config
    /\ "foo" \in DOMAIN before.config["base"]
    /\ "foo" \in DOMAIN before.config["other"]
    /\ before.config["base"]["foo"] = "0"
    /\ before.config["other"]["foo"] = "1"
    /\ config["base"]["foo"] = "bar"
    /\ config["other"]["foo"] = "bar"

\* C18: once run() has parsed the arguments itself and returned, the output
\* handler is the one the configuration names: if base.output_handler
\* names a handler the application's output handler is set and has that
\* label, resolved anew when the label held before differs and kept when
\* it is the same; if base.output_handler names none there is no output
\* handler.
C18_OutputHandlerAgrees ==
    (ParsedDirectly /\ exc = None)
    => LET name == config["base"]["output_handler"]
       IN  /\ name = None => app.output = None
           /\ name # None => /\ app.output = name
                             /\ Registered(handlers, "output", name)
           /\ name = before.app.output
                 => config = Folded(before.config, parsed_args)

\* the arguments named json while the output handler was null: the output
\* handler is now json
C18_Witness ==
    /\ ParsedDirectly
    /\ exc = None
    /\ before.app.output = "null"
    /\ "output_handler" \in DOMAIN parsed_args
    /\ parsed_args["output_handler"] = "json"
    /\ config["base"]["output_handler"] = "json"
    /\ app.output = "json"

(***************************************************************************)
(* Properties of _set_handler_defaults.                                    *)
(***************************************************************************)
\* C6: applying a handler's defaults overwrites no existing key: every
\* section and key of the configuration before is there afterwards with
\* its value, and every default key the target section lacked is there
\* with the default value.
C6_DefaultsNeverOverwrite ==
    op = "_set_handler_defaults" =>
        LET c == Class(trace[1][1], trace[1][2])
        IN  /\ \A s \in DOMAIN before.config :
                  /\ s \in DOMAIN config
                  /\ \A k \in DOMAIN before.config[s] :
                        /\ k \in DOMAIN config[s]
                        /\ config[s][k] = before.config[s][k]
            /\ HasDefaults(c) =>
                  /\ DefaultsKey(c) \in DOMAIN config
                  /\ \A k \in DOMAIN ClassDefaults(c) :
                        /\ k \in DOMAIN config[DefaultsKey(c)]
                        /\ (DefaultsKey(c) \notin DOMAIN before.config
                               \/ k \notin DOMAIN before.config[DefaultsKey(c)])
                           => config[DefaultsKey(c)][k] = ClassDefaults(c)[k]

\* config {base: {x: 1}} with defaults {base: {x: 2, y: 3}} has given
\* {base: {x: 1, y: 3}}
C6_Witness ==
    /\ op = "_set_handler_defaults"
    /\ trace[1] = Ev("controller", "base")
    /\ before.config = [base |-> [x |-> "1"]]
    /\ config = [base |-> [x |-> "1", y |-> "3"]]

(***************************************************************************)
(* Properties of render().                                                 *)
(***************************************************************************)
Rendered == op = "render" /\ pc = "idle" /\ exc = None

\* C7: with no output handler render() returns the empty string, whatever
\* the hooks registered.
C7_NoOutputHandlerEmptyText ==
    Rendered /\ app.output = None => out_text = ""

\* the value of the last callable of fns that returns a t, or dflt
LastOfType(fns, t, dflt) ==
    LET idx == {i \in DOMAIN fns : ResultType(fns[i]) = t}
    IN  IF idx = {} THEN dflt
        ELSE ResultValue(fns[CHOOSE i \in idx : \A j \in idx : j <= i])

\* C8: a pre-render result that is no dict and a post-render result that
\* is no str are passed over without raising: render() raises only if a
\* callable does, the data handed to the output handler is the result of
\* the last pre-render hook that returned a dict (else the caller's data),
\* and the text returned is the result of the last post-render hook that
\* returned a str (else the output handler's text).
C8_RenderHookResults ==
    op = "render" /\ pc = "idle" =>
        LET given == trace[1][2]
            pre   == hooks["cement_pre_render_hook"]
            post  == hooks["cement_post_render_hook"]
            d     == LastOfType(pre, "dict", given)
            text  == IF app.output = None THEN ""
                     ELSE OutputRender(app.output, d)
        IN  /\ exc = None <=> \A fn \in Range(pre) \cup Range(post) : ~Raises(fn)
            /\ exc = None =>
                  /\ data = d
                  /\ app.output # None =>
                        <<"render", app.output, d, text>> \in Range(trace)
                  /\ out_text = LastOfType(post, "str", text)

C8_Witness ==
    /\ Rendered
    /\ app.output # None
    /\ hooks["cement_pre_render_hook"] = <<"ret_dict1", "ret_str1">>
    /\ data = "d1"
    /\ out_text = "null(d1)"

\* the arguments the callables of hook name were invoked with, in order
CalledWith(name) ==
    LET idx == {i \in DOMAIN trace :
                   trace[i][1] = "call" /\ trace[i][2] = name}
    IN  {trace[i][4] : i \in idx}

\* C22: within one render() every pre-render hook is invoked with the data
\* passed to render(), and every post-render hook with the text the output
\* handler produced from the data as the pre-render hooks left it (the
\* empty string with no output handler): what an earlier hook returned is
\* never the argument of a later hook of the same dispatch.
C22_RenderHookArguments ==
    op = "render" /\ pc = "idle" =>
        /\ \A a \in CalledWith("cement_pre_render_hook") : a = trace[1][2]
        /\ \A a \in CalledWith("cement_post_render_hook") :
              a = IF app.output = None THEN ""
                  ELSE OutputRender(app.output, data)

C22_Witness ==
    /\ Rendered
    /\ app.output # None
    /\ hooks["cement_pre_render_hook"] = <<"ret_dict1", "ret_dict2">>
    /\ trace[1] = Ev("args", "d0")
    /\ <<"call", "cement_pre_render_hook", "ret_dict2", "d0">> \in Range(trace)
    /\ data = "d2"

(***************************************************************************)
(* Properties of cement_signal_handler.                                    *)
(***************************************************************************)
\* C9: a signal whose handler is installed runs the signal hook once, each
\* callable once and in order with the signal number, and only then raises
\* CementSignalError carrying that number; the handler never returns.  (A
\* callable that raises ends the dispatch with its own exception.)
C9_SignalHookThenRaise ==
    (\E i \in DOMAIN trace : trace[i][1] = "signal") =>
        LET i0   == CHOOSE i \in DOMAIN trace : trace[i][1] = "signal"
            sig  == trace[i0][2]
            tail == SubSeq(trace, i0 + 1, Len(trace))
            fns  == hooks["cement_signal_hook"]
        IN  /\ pc = "idle"
            /\ exc \in {"CementSignalError", "HookError"}
            /\ exc = "CementSignalError" <=> \A fn \in Range(fns) : ~Raises(fn)
            /\ exc = "CementSignalError" =>
                  /\ signum = sig
                  /\ tail = <<Ev("hook", "cement_signal_hook")>>
                            \o [i \in DOMAIN fns |->
                                   <<"call", "cement_signal_hook", fns[i], sig>>]
                            \o <<Ev("raise", sig)>>
            /\ exc = "HookError" => Ev("raise", sig) \notin Range(tail)

C9_Witness ==
    /\ exc = "CementSignalError"
    /\ signum = "SIGINT"
    /\ op = "setup"
    /\ Len(hooks["cement_signal_hook"]) = 2

(***************************************************************************)
(* Properties of the lay-down.                                             *)
(***************************************************************************)
\* what the author defined or registered since the lay-down, by kind
Since(kind, what) == {e[3] : e \in {x \in since : x[1] = kind /\ x[2] = what}}

SinceDefined(kind) == {e[2] : e \in {x \in since : x[1] = kind}}

\* the handlers the core extensions bring, once setup() has loaded them
CoreLabels(type) ==
    IF app.ext = None THEN {}
    ELSE {ExtensionClass(CoreExtensions[i]).label :
             i \in {j \in DOMAIN CoreExtensions :
                       ExtensionClass(CoreExtensions[j]).type = type}}

\* C10: nothing registered before a lay-down survives it.  The hook bus
\* holds the eight framework hooks and what was defined since, each with
\* exactly the callables registered since; the registry holds the seven
\* interfaces and what was defined since, each with the built-in extension
\* handler, the handlers setup() has loaded and those registered since; and
\* the operations call only callables registered since.
C10_LayDownStartsClean ==
    /\ DOMAIN hooks = Range(FrameworkHooks) \cup SinceDefined("hook.define")
    /\ \A n \in DOMAIN hooks : Range(hooks[n]) = Since("hook.register", n)
    /\ DOMAIN handlers = Range(Interfaces) \cup SinceDefined("handler.define")
    /\ \A t \in DOMAIN handlers :
          Range(handlers[t]) =
              Since("handler.register", t) \cup CoreLabels(t)
                  \cup (IF t = "extension" THEN {"cement"} ELSE {})
    /\ \A i \in DOMAIN trace :
          trace[i][1] = "call" => trace[i][3] \in Since("hook.register", trace[i][2])

C10_Witness ==
    /\ op = "lay_cement"
    /\ since = {}
    /\ "my_hook" \in DOMAIN before.hooks
    /\ before.hooks["cement_pre_setup_hook"] # <<>>
    /\ Registered(before.handlers, "controller", "base")
    /\ "my_hook" \notin DOMAIN hooks
    /\ hooks["cement_pre_setup_hook"] = <<>>
    /\ handlers["controller"] = <<>>

(***************************************************************************)
(* _resolve_handler on its own: an application, before or after setup(),   *)
(* its author registering handlers, and a reference of each shape          *)
(* resolved.                                                               *)
(***************************************************************************)
ResolveClasses ==
    {Class("output", "json"), Class("controller", "my_c"),
     Class("log", "logging")}

\* handler_def: a label, an instance or a class of ResolveClasses, or an
\* object that is none of them
ResolveInputs ==
    {Ref(sh, c) : sh \in {"str", "instance", "class"}, c \in ResolveClasses}
        \cup {Ref("other", Class("output", "42"))}

InitResolve == Laid(<<>>, BackendDefaults(None, None), <<>>, <<>>, {})

\* self._resolve_handler(handler_type, handler_def)
Resolve(type, ref) ==
    LET r == ResolveHandler(handlers, app.config, config, type, ref)
    IN  /\ Atomic("_resolve_handler",
                  <<<<"handler_def", type, ref.shape, ref.class.label>>>>
                      \o r.events,
                  r.exc)
        /\ handlers' = r.handlers
        /\ config' = r.config
        /\ UNCHANGED <<hooks, meta, app, argv, argdests, sigs, stdout, data,
                       out_text, closed, parsed_args, since>>

ResolveAny == \E ref \in ResolveInputs : Resolve(ref.class.type, ref)

\* the author registers before the first operation is called
RegisterResolvable ==
    called = {} /\ \E c \in AuthorClasses : RegisterHandler(c)

NextResolve ==
    \/ RegisterResolvable
    \/ Setup
    \/ ResolveAny

SpecResolve == InitResolve /\ [][NextResolve]_vars

(***************************************************************************)
(* Properties of _resolve_handler.                                         *)
(***************************************************************************)
\* a _resolve_handler call has just ended: what it was given
Resolved == op = "_resolve_handler" /\ pc = "idle"

ResolvedType == trace[1][2]

ResolvedShape == trace[1][3]

ResolvedLabel == trace[1][4]

Did(kind) == \E i \in DOMAIN trace : trace[i][1] = kind

WasRegistered ==
    Registered(before.handlers, ResolvedType, ResolvedLabel)

\* C11: with a configuration handler in place, resolving a registered
\* label, an instance or a class returns an instantiated, set-up handler
\* whose class is registered: a label is looked up and instantiated, an
\* instance is returned as it is and registered only if it was not, a
\* class is registered if needed and a new instance returned.
C11_ResolveShapes ==
    (/\ Resolved
     /\ before.app.config # None
     /\ \/ ResolvedShape \in {"instance", "class"}
        \/ ResolvedShape = "str" /\ WasRegistered)
    => /\ exc = None
       /\ Did("_setup")
       /\ Did("return")
       /\ Registered(handlers, ResolvedType, ResolvedLabel)
       /\ WasRegistered => handlers = before.handlers
       /\ ResolvedShape = "instance" => ~Did("instantiate")
       /\ ResolvedShape \in {"str", "class"} => Did("instantiate")

\* a reference _resolve_handler cannot resolve: no str, instance or class,
\* or a label not registered for the type
Unresolvable ==
    \/ ResolvedShape = "other"
    \/ ResolvedShape = "str" /\ ~WasRegistered

\* C12 as stated: resolving a reference of no accepted shape, or a label
\* that is not registered, fails with HandlerResolutionError, merging no
\* defaults and setting up no handler.
C12_HandlerResolutionError ==
    (Resolved /\ Unresolvable)
    => /\ exc = "HandlerResolutionError"
       /\ config = before.config
       /\ ~Did("_setup")

\* C12 as amended: such a resolve fails, but with no error of its own: a
\* label that is not registered fails in the registry's lookup with its
\* not-found error, and a reference of no accepted shape leaves han None
\* and fails with an AttributeError when its metadata is read.  Either way
\* no defaults are merged, nothing is registered, no handler is set up and
\* nothing is returned.
C12_ResolveFailsUntyped ==
    (Resolved /\ Unresolvable)
    => /\ exc = (IF ResolvedShape = "other" THEN "AttributeError"
                 ELSE "NotFoundError")
       /\ config = before.config
       /\ handlers = before.handlers
       /\ ~Did("_setup")
       /\ ~Did("return")

\* after setup(), a label nobody registered has been resolved
C12_Witness ==
    /\ Resolved
    /\ ResolvedShape = "str"
    /\ ~WasRegistered
    /\ before.app.config # None
    /\ before.config # EmptyMap
    /\ exc = "NotFoundError"
    /\ config = before.config

(***************************************************************************)
(* setup() on applications whose defaults may lack a base option that      *)
(* setup() reads, a configuration file maybe supplying it.                 *)
(***************************************************************************)
\* the base options setup() reads with self.config.get('base', ...)
RequiredKeys ==
    {"plugins", "output_handler", "arg_handler", "controller_handler"}

\* the section with the option k taken out
Without(sec, k) == [x \in (DOMAIN sec) \ {k} |-> sec[x]]

ValidateDefaultsInputs ==
    LET d == BackendDefaults(None, "null")
    IN  {d} \cup {[base |-> Without(d["base"], k)] :
                     k \in {"plugins", "arg_handler"}}

InitValidate ==
    \E d \in ValidateDefaultsInputs,
       files \in {<<>>, <<"f_x">>, <<"f_plugins">>} :
        Laid(<<>>, d, files, <<>>, {"SIGTERM"})

RegisterSetupHook ==
    /\ called = {}
    /\ \E name \in {"cement_pre_setup_hook", "cement_post_setup_hook"} :
          RegisterHook(name, "ret_none")

NextValidate ==
    \/ RegisterSetupHook
    \/ Setup

SpecValidate == InitValidate /\ [][NextValidate]_vars

(***************************************************************************)
(* Properties of the validation steps of setup().                          *)
(***************************************************************************)
\* a statement of the setup() in progress, or just ended, has been taken
Stepped(kind, what) ==
    op = "setup" /\ \E i \in DOMAIN trace : trace[i] = Ev(kind, what)

RequiredMissing == \E k \in RequiredKeys : ~HasOption(config, k)

\* C13: when a base option setup() needs is absent once the configuration
\* files are parsed, setup() fails with ConfigValidationError at the
\* validation step: it goes no further than _validate_required_config, so
\* no log, plugin, argument, output or controller handler is resolved and
\* no post-setup hook runs.
C13_FailsAtValidation ==
    (Stepped("step", "_validate_required_config") /\ RequiredMissing)
    => /\ exc = "ConfigValidationError"
       /\ pc = "idle"
       /\ \A t \in {"log", "plugin", "argument", "output", "controller"} :
             ~Stepped("resolve", t)
       /\ ~Stepped("hook", "cement_post_setup_hook")

(***************************************************************************)
(* Properties of the argument vector during setup().                       *)
(***************************************************************************)
\* the controller step of the setup() in progress, or just ended, is done
ControllerResolved ==
    /\ Stepped("resolve", "controller")
    /\ pc = "post_setup_hook" \/ Stepped("hook", "cement_post_setup_hook")

\* argv[0] of the argument vector setup() started with names a controller
NamesController ==
    /\ Len(before.argv) > 0
    /\ Registered(handlers, "controller", SubDash(before.argv[1]))

\* C14: during setup() the argument vector is the one setup() started
\* with until the controller is resolved; from then on it is that vector
\* without its first element, and the controller the one argv[0] names
\* with dashes folded to underscores, exactly when that is the label of a
\* registered controller, and the same vector in every other case.
C14_ArgvFrame ==
    op = "setup"
    => IF ControllerResolved /\ NamesController
       THEN /\ argv = Tail(before.argv)
            /\ app.controller = SubDash(before.argv[1])
       ELSE argv = before.argv

\* setup() has returned on argv ['my-c'] with the controller my_c
\* registered: the argument is consumed and my_c is the controller
C14_Witness ==
    /\ op = "setup"
    /\ pc = "idle"
    /\ exc = None
    /\ before.argv = <<"my-c">>
    /\ argv = <<>>
    /\ app.controller = "my_c"

(***************************************************************************)
(* The lay-down and the command line's flags: one process laying down an   *)
(* application, and maybe a second one after it, with every short command  *)
(* line over the flags.                                                    *)
(***************************************************************************)
MaxFlags == 2

Flags == {"--debug", "--quiet", "--json", "--yaml", "-v"}

FlagArgvs == UNION {[1..n -> Flags] : n \in 0..MaxFlags}

InitFlags ==
    \E a \in FlagArgvs :
        Laid(a, BackendDefaults(None, "null"), <<>>, <<>>, {})

\* the process's second application: none was laid down before the first
LayCementFlags ==
    /\ before.hooks = EmptyMap
    /\ \E a \in FlagArgvs :
          LayCement(a, BackendDefaults(None, "null"), <<>>, <<>>, {})

NextFlags == LayCementFlags

SpecFlags == InitFlags /\ [][NextFlags]_vars

(***************************************************************************)
(* Properties of the lay-down's handling of the flags.                     *)
(***************************************************************************)
\* C15: a lay-down turns console output to the discard sink if and only if
\* the argument vector holds one of --quiet, --json, --yaml and no --debug,
\* and leaves it as it was otherwise; whenever --debug is there the base
\* debug default is true and the lay-down does not redirect, whatever the
\* other flags.
C15_SuppressionAtLayDown ==
    [][LET quiet == \E i \in DOMAIN argv' :
                        argv'[i] \in {"--quiet", "--json", "--yaml"}
           debug == \E i \in DOMAIN argv' : argv'[i] = "--debug"
       IN  /\ op' = "lay_cement"
           /\ stdout' = IF quiet /\ ~debug THEN "NullOut" ELSE stdout
           /\ debug => meta'.defaults["base"]["debug"] = "True"
           /\ ~debug => meta'.defaults["base"]["debug"] = "False"]_vars

\* a process's first application, laid down with --quiet and --debug:
\* debug is on and the console is still the console
C15_Witness ==
    /\ op = "lay_cement"
    /\ argv = <<"--quiet", "--debug">>
    /\ stdout = "console"
    /\ meta.defaults["base"]["debug"] = "True"

(***************************************************************************)
(* CementApp.__init__ and _validate_name.  A name is a str, or None when   *)
(* no name is given and Meta.app_name is left at its default.              *)
(***************************************************************************)
\* the characters of the names tried
NameChars(n) ==
    CASE n = "a"      -> <<"a">>
      [] n = "A1"     -> <<"A", "1">>
      [] n = "9"      -> <<"9">>
      [] n = "_"      -> <<"_">>
      [] n = "my_app" -> <<"m", "y", "_", "a", "p", "p">>
      [] n = "my-app" -> <<"m", "y", "-", "a", "p", "p">>
      [] n = "a b"    -> <<"a", " ", "b">>
      [] n = "a.b"    -> <<"a", ".", "b">>
      [] n = "app!"   -> <<"a", "p", "p", "!">>
      [] n = "-"      -> <<"-">>
      [] OTHER        -> <<>>

Names ==
    {None, "", "a", "A1", "9", "_", "my_app", "my-app", "a b", "a.b", "app!",
     "-"}

\* char.isalnum()
IsAlnum(ch) == ch \in {"a", "b", "m", "p", "y", "A", "1", "9"}

\* _validate_name with the test "if not self._meta.app_name" left out
ValidateNameNoMissingTest(n) ==
    IF \E i \in DOMAIN NameChars(n) :
           NameChars(n)[i] # "_" /\ ~IsAlnum(NameChars(n)[i])
    THEN "CementRuntimeError"
    ELSE None

\* _validate_name on the app_name n: the exception raised, None if none
ValidateName(n) ==
    IF n = None \/ n = "" THEN "CementRuntimeError"
    ELSE IF \E i \in DOMAIN NameChars(n) :
                NameChars(n)[i] # "_" /\ ~IsAlnum(NameChars(n)[i])
    THEN "CementRuntimeError"
    ELSE None

\* CementApp(name, argv=a): the name is validated, then the cement laid
Construct(n, a) ==
    LET c == Constructed(a, BackendDefaults(None, "null"), <<>>, <<>>, {},
                         hooks, handlers, sigs, stdout)
        e == ValidateName(n)
    IN  /\ pc = "idle"
        /\ op' = "__init__"
        /\ pc' = "idle"
        /\ exc' = e
        /\ trace' = <<Ev("app_name", n)>>
        /\ signum' = None
        /\ before' = Snapshot
        /\ IF e = None
           THEN /\ hooks' = c.hooks
                /\ handlers' = c.handlers
                /\ meta' = c.meta
                /\ app' = c.app
                /\ config' = c.config
                /\ argv' = c.argv
                /\ argdests' = c.argdests
                /\ sigs' = c.sigs
                /\ stdout' = c.stdout
                /\ data' = None
                /\ out_text' = None
                /\ closed' = FALSE
                /\ parsed_args' = EmptyMap
                /\ called' = {}
                /\ since' = {}
           ELSE UNCHANGED <<hooks, handlers, meta, app, config, argv,
                            argdests, sigs, stdout, data, out_text, closed,
                            parsed_args, called, since>>

NameArgvInputs == {<<>>, <<"--quiet">>, <<"--debug">>}

InitName == Laid(<<>>, BackendDefaults(None, "null"), <<>>, <<>>, {})

ConstructAny == \E n \in Names, a \in NameArgvInputs : Construct(n, a)

RegisterBeforeConstruct ==
    /\ op = "lay_cement"
    /\ \E fn \in {"ret_none"} : RegisterHook("cement_pre_setup_hook", fn)

NextName ==
    \/ RegisterBeforeConstruct
    \/ ConstructAny

SpecName == InitName /\ [][NextName]_vars

(***************************************************************************)
(* Properties of the construction.                                         *)
(***************************************************************************)
\* the name the last CementApp(...) was given
GivenName == trace[1][2]

\* C16: constructing an application succeeds for every name that is not
\* empty and made of alphanumeric characters and underscores only, and
\* fails with the name validation's error (CementRuntimeError in the
\* source) for a missing or empty name and for a name holding any other
\* character; a construction that fails lays no cement.
C16_NameValidation ==
    op = "__init__"
    => LET n  == GivenName
           ok == /\ n # None
                 /\ Len(NameChars(n)) > 0
                 /\ \A i \in DOMAIN NameChars(n) :
                       NameChars(n)[i] \in
                           {"_", "a", "b", "m", "p", "y", "A", "1", "9"}
       IN  /\ ok => /\ exc = None
                    /\ app = NoHandlers
                    /\ hooks["cement_pre_setup_hook"] = <<>>
           /\ ~ok => /\ exc = "CementRuntimeError"
                     /\ hooks = before.hooks
                     /\ handlers = before.handlers

\* the empty name has been refused in a process that had registered a hook
\* callable, which is still registered
C16_Witness ==
    /\ op = "__init__"
    /\ GivenName = ""
    /\ exc = "CementRuntimeError"
    /\ hooks["cement_pre_setup_hook"] = <<"ret_none">>

(***************************************************************************)
(* Properties of run().                                                    *)
(***************************************************************************)
\* where in the trace of the operation the entries of a kind are
At(kind) == {i \in DOMAIN trace : trace[i][1] = kind}

\* where the entries of the dispatch of a hook are: its start and its calls
AtHook(name) ==
    {i \in DOMAIN trace : trace[i][1] \in {"hook", "call"} /\ trace[i][2] = name}

\* C17: in every run() the pre-run hooks are through before the controller
\* is dispatched or the arguments are parsed; then one of the two happens
\* and never both: the controller is dispatched if and only if there is
\* one, else the argument vector is parsed; the post-run hooks start only
\* once that step is through, and a run() that returns has done all three.
C17_RunOrder ==
    op = "run"
    => LET step == At("dispatch") \cup At("parse")
           pre  == AtHook("cement_pre_run_hook")
           post == AtHook("cement_post_run_hook")
       IN  /\ Cardinality(step) <= 1
           /\ At("dispatch") # {} => app.controller # None
           /\ At("parse") # {} => app.controller = None
           /\ \A s \in step : pre # {} /\ \A i \in pre : i < s
           /\ \A p \in post : step # {} /\ \A s \in step : s < p
           /\ pc = "post_run_hook" => step # {}
           /\ (pc = "idle" /\ exc = None) => step # {} /\ post # {}
           /\ pc = "dispatch_or_parse"
                 => /\ step = {}
                    /\ Len(hooks["cement_pre_run_hook"]) + 1 = Cardinality(pre)

\* a run() has returned after calling a pre-run callable, then dispatching
\* its controller, then starting the post-run hooks
C17_Witness ==
    /\ op = "run"
    /\ pc = "idle"
    /\ exc = None
    /\ trace = <<Ev("hook", "cement_pre_run_hook"),
                 <<"call", "cement_pre_run_hook", "ret_none", "app">>,
                 Ev("dispatch", "run"),
                 Ev("hook", "cement_post_run_hook")>>

(***************************************************************************)
(* Properties of the hooks' exceptions.                                    *)
(***************************************************************************)
\* a callable of the hook has raised in the operation in progress
RaisedIn(name) ==
    \E i \in AtHook(name) : trace[i][1] = "call" /\ Raises(trace[i][3])

\* C19: a hook callable that raises ends the operation with its exception.
\* When a pre-run callable raises, run() ends there with the error: no
\* controller is dispatched, no argument parsed, no post-run hook started.
\* When a pre-setup callable raises, setup() ends there with the error: no
\* signal handler is installed and no handler resolved.  In both the
\* raising call is the last thing done and the application is as it was.
C19_HookErrorAborts ==
    /\ (op = "run" /\ RaisedIn("cement_pre_run_hook"))
       => /\ pc = "idle"
          /\ exc = "HookError"
          /\ At("dispatch") = {} /\ At("parse") = {}
          /\ AtHook("cement_post_run_hook") = {}
          /\ Raises(trace[Len(trace)][3])
          /\ app = before.app /\ config = before.config
    /\ (op = "setup" /\ RaisedIn("cement_pre_setup_hook"))
       => /\ pc = "idle"
          /\ exc = "HookError"
          /\ At("step") = {} /\ At("resolve") = {}
          /\ Raises(trace[Len(trace)][3])
          /\ app = before.app /\ config = before.config
          /\ handlers = before.handlers

\* an application with a controller, whose second pre-run callable has
\* raised
C19_Witness ==
    /\ op = "run"
    /\ app.controller = "run"
    /\ exc = "HookError"
    /\ trace = <<Ev("hook", "cement_pre_run_hook"),
                 <<"call", "cement_pre_run_hook", "ret_none", "app">>,
                 <<"call", "cement_pre_run_hook", "boom", "app">>>>

(***************************************************************************)
(* Properties of the section the defaults go under.                        *)
(***************************************************************************)
\* the handler _set_handler_defaults was last applied to
Applied == Class(trace[1][1], trace[1][2])

ExtensionHandlerInputs ==
    {ExtensionHandlerRef, Ref("class", Class("extension", "my_ext")),
     Ref("instance", Class("extension", "my_ext"))}

ConfigHandlerInputs ==
    {ConfigHandlerRef, Ref("class", Class("config", "my_conf"))}

InitHandlers ==
    \E eh \in ExtensionHandlerInputs, ch \in ConfigHandlerInputs,
       out \in {"null", "json"} :
        LET c == Constructed(<<>>, BackendDefaults(None, out), <<"f_x">>,
                             <<"ext_json">>, {}, EmptyMap, EmptyMap, {},
                             "console")
        IN  /\ hooks = c.hooks
            /\ handlers = c.handlers
            /\ meta = [c.meta EXCEPT !.extension_handler = eh,
                                     !.config_handler = ch]
            /\ app = c.app
            /\ config = c.config
            /\ argv = c.argv
            /\ argdests = c.argdests
            /\ sigs = c.sigs
            /\ stdout = c.stdout
            /\ op = "lay_cement"
            /\ pc = "idle"
            /\ exc = None
            /\ trace = <<>>
            /\ data = None
            /\ out_text = None
            /\ closed = FALSE
            /\ parsed_args = EmptyMap
            /\ signum = None
            /\ before = [app |-> c.app, argv |-> c.argv, config |-> c.config,
                         hooks |-> EmptyMap, handlers |-> EmptyMap]
            /\ called = {}
            /\ since = {}

NextHandlers ==
    \/ Register
    \/ Setup

SpecHandlers == InitHandlers /\ [][NextHandlers]_vars

(***************************************************************************)
(* Properties of the defaults merger during setup().                       *)
(***************************************************************************)
\* the statements of setup() that call _resolve_handler, and the reference
\* each passes to it
ResolvingSteps ==
    {"_setup_extension_handler", "_setup_config_handler",
     "_setup_log_handler", "_setup_plugin_handler"}

ResolvedAt(step) ==
    CASE step = "_setup_extension_handler" -> meta.extension_handler
      [] step = "_setup_config_handler"    -> meta.config_handler
      [] step = "_setup_log_handler"       -> LogHandlerRef
      [] step = "_setup_plugin_handler"    -> PluginHandlerRef

\* the interface of the handler a resolving statement resolves
ResolvedKind(step) == ResolvedAt(step).class.type

\* C21: whenever the defaults merger is invoked during setup() on a handler
\* that declares defaults, the configuration handler has already been
\* resolved and assigned to the application, so the merge has a store to
\* write to, for every handler setup() resolves, the extension handler and
\* the configuration handler included: with control at a resolving
\* statement whose handler declares defaults self.config is set, and no
\* such statement ends in the merger's failure on an unset self.config.
C21_ConfigResolvedBeforeMerge ==
    \A step \in ResolvingSteps :
        HasDefaults(ResolvedAt(step).class) =>
            /\ (op = "setup" /\ pc = step) => app.config # None
            /\ ~(/\ op = "setup"
                 /\ pc = "idle"
                 /\ trace # <<>>
                 /\ trace[Len(trace)] = Ev("resolve", ResolvedKind(step))
                 /\ exc = "AttributeError"
                 /\ app.config = None)
====
